---------------------------- MODULE Spec2Model ----------------------------
(***************************************************************************)
(* Model of the logspout-logstash adapter: the multi-line buffer           *)
(* (src/multiline/multiline.go, method variant, lines 1-187) and the       *)
(* adapter's event loop with its per-key cache and expiry ticker           *)
(* (src/logstash.go, lines 1-420).                                         *)
(*                                                                         *)
(* A text (router.Message.Data) is a sequence of one-character strings, so *)
(* that the pattern is evaluated on the characters and strings.Join really *)
(* concatenates.  A message is a record                                    *)
(*   [ID, Source, Time, Data, lines]                                       *)
(* ID = Container.ID, Source and Data as in router.Message; Time is the    *)
(* producer's timestamp, modelled as the arrival number of the line (the   *)
(* producer stamps lines with time.Now(), so the stamps are increasing and *)
(* identify the line); lines is a history field: the Time stamps of the    *)
(* input lines whose text Data holds.                                      *)
(***************************************************************************)
EXTENDS Naturals, Integers, Sequences, FiniteSets, TLC

VARIABLES
    cfg,        \* route options read by newLogstashAdapter: groupWith, negate, maxLines, pattern
    cache,      \* a.cache: key -> [pending, LastTouched]
    now,        \* the wall clock
    tickC,      \* the ticker's channel (capacity 1): <<>> or <<t>>
    sent,       \* number of lines the producer has sent on logstream
    closed,     \* the producer has closed logstream
    pc,         \* Stream: "running", "done" (returned), "fatal" (log.Fatal), "panic"
    written,    \* the records handed to a.write, in order
    ev,         \* the last event Stream handled
    group,      \* history: per stream, the lines received since its last record
    hist,       \* history: per stream, the lines and flushes of the stream
    ticks,      \* history: per stream, the ticks handled since its last line
    heap,       \* the router.Message objects by address, where addresses are modelled
    step        \* the MultiLine of the functional variant and the records read from it

vars == <<cfg, cache, now, tickC, sent, closed, pc, written, ev, group, hist, ticks, heap, step>>

---------------------------------------------------------------------------
(* Bounds of the model *)

MaxInput == 3       \* lines the producer sends at most
MaxTime == 3        \* the clock stops here
CacheTTL == 1       \* the route's cache_ttl option, in clock units
MaxRecords == 3     \* a buffer driven directly is expired or flushed until it has returned this many records

(* Program constants *)

defaultMaxLines == 1024

defaultSeparator == <<"\n">>

TruncatedText == <<"[", "T", "r", "u", "n", "c", "a", "t", "e", "d", "]">>

(* Inputs: the streams (container ID, source) and the texts of the lines *)

Streams == {<<"c1", "out">>, <<"c1", "err">>}

Texts == {<<"a">>, <<" ", "b">>}

GroupWiths == {"previous", "next"}

\* the route's max_lines option, as the text of the option (<<>>: not set)
MaxLinesOptions == {<<>>, <<"1">>, <<"2">>}

\* further texts of the max_lines option: not a number, zero, negative,
\* signed, with a leading space
OtherMaxLinesOptions == {<<"1", "x">>, <<"0">>, <<"-", "1">>, <<"+", "2">>, <<" ", "2">>}

\* the route's separator option: <<>> when it is not set, <<text>> when it is
SeparatorOptions == {<<>>}

\* further separator options: a bar, a blank, the empty text
OtherSeparatorOptions == {<< <<"|">> >>, << <<" ">> >>, << <<>> >>}

\* the default of the route's pattern option
DefaultPattern == "(^\\s)|(^Caused by:)"

\* a pattern option that is not a regular expression
MalformedPattern == "("

\* group_with options that are not matcher types (the lookup is case sensitive)
UnknownGroupWiths == {"both", "Previous"}

\* the configurations of the adapter that are well formed
Configs ==
    [groupWith : GroupWiths, negate : BOOLEAN, maxLines : MaxLinesOptions,
     pattern : {DefaultPattern}, separator : SeparatorOptions]

\* every configuration a route can carry
AllConfigs ==
    [groupWith : GroupWiths \cup UnknownGroupWiths, negate : BOOLEAN,
     maxLines : MaxLinesOptions, pattern : {DefaultPattern, MalformedPattern},
     separator : SeparatorOptions]

---------------------------------------------------------------------------
(* Helpers *)

Last(s) == s[Len(s)]

\* all orders in which a range over the Go map can visit the keys in S
Orders(S) == {o \in [1..Cardinality(S) -> S] : \A i, j \in 1..Cardinality(S) : o[i] = o[j] => i = j}

RECURSIVE Flatten(_)
Flatten(ss) == IF ss = <<>> THEN <<>> ELSE Head(ss) \o Flatten(Tail(ss))

---------------------------------------------------------------------------
(* multiline.go: the matchers *)

\* RE2's \s is [\t\n\f\r ]
Whitespace == {" ", "\t", "\n", "\r", "\f"}

CausedBy == <<"C", "a", "u", "s", "e", "d", " ", "b", "y", ":">>

HasPrefix(s, p) == Len(s) >= Len(p) /\ SubSeq(s, 1, Len(p)) = p

\* regexp `(^\s)|(^Caused by:)`, the default pattern, on one line
PatternMatch(line) ==
    \/ (Len(line) > 0 /\ line[1] \in Whitespace)
    \/ HasPrefix(line, CausedBy)

\* mutant: the previous matcher tests the last text
previousMatcher_OnLastText(lastText, currentText) == PatternMatch(lastText)

previousMatcher(lastText, currentText) == PatternMatch(currentText)

nextMatcher(lastText, currentText) == PatternMatch(lastText)

\* mutant: negate is ignored
negatedMatcher_Ignored(m) == m

negatedMatcher(m) == ~m

\* the matcher NewMultiLine builds for configuration c
isMultiline(c, lastText, currentText) ==
    LET m == IF c.groupWith = "next"
             THEN nextMatcher(lastText, currentText)
             ELSE previousMatcher(lastText, currentText)
    IN  IF c.negate THEN negatedMatcher(m) ELSE m

\* mutant: the table of matcher types has an entry too many
types_WithBoth == {"next", "previous", "both"}

\* the keys of NewMultiLine's table of matcher types
types == {"next", "previous"}

\* NewMultiLine returns an error (and the zero MultiLine) for configuration c
NewMultiLineErr(c) == c.groupWith \notin types

\* regexp.Compile succeeds on pattern p
Compiles(p) == p = DefaultPattern

\* the value of a decimal digit, 10 for any other character
DigitValue(ch) ==
    CASE ch = "0" -> 0 [] ch = "1" -> 1 [] ch = "2" -> 2 [] ch = "3" -> 3 [] ch = "4" -> 4
      [] ch = "5" -> 5 [] ch = "6" -> 6 [] ch = "7" -> 7 [] ch = "8" -> 8 [] ch = "9" -> 9
      [] OTHER -> 10

\* the number the digits ds denote after the digits that gave n
RECURSIVE DigitsValue(_, _)
DigitsValue(ds, n) ==
    IF ds = <<>> THEN n ELSE DigitsValue(Tail(ds), n * 10 + DigitValue(Head(ds)))

\* strconv.Atoi on a short text: an optional sign, then one or more digits
Atoi(s) ==
    LET signed == s # <<>> /\ Head(s) \in {"+", "-"}
        ds == IF signed THEN Tail(s) ELSE s
        bad == ds = <<>> \/ \E i \in DOMAIN ds : DigitValue(ds[i]) > 9
        n == DigitsValue(ds, 0)
    IN  IF bad THEN [err |-> TRUE, val |-> 0]
        ELSE [err |-> FALSE, val |-> IF signed /\ Head(s) = "-" THEN 0 - n ELSE n]

\* newLogstashAdapter: MultilineConfig.MaxLines for the max_lines option s
maxLinesOption(s) == IF Atoi(s).err THEN 0 ELSE Atoi(s).val

\* mutant: only zero stands for the default
maxLinesOf_NegativeKept(n) == IF n # 0 THEN n ELSE defaultMaxLines

\* the cap NewMultiLine chooses for MultilineConfig.MaxLines = n
maxLinesOf(n) == IF n > 0 THEN n ELSE defaultMaxLines

\* ml.maxLines; the zero MultiLine returned with an error has the cap 0
maxLines == IF NewMultiLineErr(cfg) THEN 0 ELSE maxLinesOf(maxLinesOption(cfg.maxLines))

\* ml.separator: the option when it is set, the default otherwise; the zero
\* MultiLine has the empty separator
separator ==
    IF NewMultiLineErr(cfg) THEN <<>>
    ELSE IF cfg.separator = <<>> THEN defaultSeparator ELSE cfg.separator[1]

\* a new buffer: no pending lines, zero LastTouched
NewMultiLine == [pending |-> <<>>, LastTouched |-> 0]

---------------------------------------------------------------------------
(* multiline.go: the buffer.  An optional *router.Message is a sequence of  *)
(* length 0 (nil) or 1.                                                     *)

PendingSize(ml) == Len(ml.pending)

getLastPendingData(ml) == ml.pending[PendingSize(ml)].Data

\* mutant: the separator is left out
RECURSIVE Join_NoSeparator(_, _)
Join_NoSeparator(elems, sep) ==
    IF Len(elems) = 0 THEN <<>>
    ELSE elems[1] \o Join_NoSeparator(Tail(elems), sep)

RECURSIVE Join(_, _)
Join(elems, sep) ==
    IF Len(elems) = 0 THEN <<>>
    ELSE IF Len(elems) = 1 THEN elems[1]
    ELSE elems[1] \o sep \o Join(Tail(elems), sep)

\* mutant: a buffer without pending lines yields a record with the empty text
Flush_EmptyRecord(ml) ==
    LET buffer == [i \in 1..PendingSize(ml) |-> ml.pending[i].Data]
    IN  IF PendingSize(ml) > 0
        THEN <<[ml.pending[1] EXCEPT
                  !.Data = Join(buffer, separator),
                  !.lines = Flatten([i \in 1..PendingSize(ml) |-> ml.pending[i].lines])]>>
        ELSE <<[ID |-> "", Source |-> "", Time |-> 0, Data |-> <<>>, lines |-> <<>>]>>

\* mutant: the record takes the identity of the last pending line
Flush_IdentityOfLast(ml) ==
    LET buffer == [i \in 1..PendingSize(ml) |-> ml.pending[i].Data]
    IN  IF PendingSize(ml) > 0
        THEN <<[ml.pending[PendingSize(ml)] EXCEPT
                  !.Data = Join(buffer, separator),
                  !.lines = Flatten([i \in 1..PendingSize(ml) |-> ml.pending[i].lines])]>>
        ELSE <<>>

\* Flush builds the record and returns it; it leaves ml.pending as it is
Flush(ml) ==
    LET buffer == [i \in 1..PendingSize(ml) |-> ml.pending[i].Data]
    IN  IF PendingSize(ml) > 0
        THEN <<[ml.pending[1] EXCEPT
                  !.Data = Join(buffer, separator),
                  !.lines = Flatten([i \in 1..PendingSize(ml) |-> ml.pending[i].lines])]>>
        ELSE <<>>

isContinuationMessage(ml, msg) ==
    \/ PendingSize(ml) = 0
    \/ isMultiline(cfg, getLastPendingData(ml), msg.Data)

\* mutant: the line is put in front of the pending lines
addPending_Prepends(ml, next) ==
    IF PendingSize(ml) < maxLines
    THEN [ml |-> [ml EXCEPT !.pending = <<next>> \o ml.pending], msg |-> <<>>]
    ELSE IF PendingSize(ml) = maxLines
    THEN [ml |-> [ml EXCEPT !.pending =
                     Append(ml.pending, [next EXCEPT !.Data = TruncatedText, !.lines = <<>>])],
          msg |-> <<>>]
    ELSE [ml |-> ml, msg |-> <<>>]

\* mutant: at the cap the marker takes the place of the last pending line
addPending_MarkerReplacesLast(ml, next) ==
    IF PendingSize(ml) < maxLines
    THEN [ml |-> [ml EXCEPT !.pending = Append(ml.pending, next)], msg |-> <<>>]
    ELSE IF PendingSize(ml) = maxLines
    THEN [ml |-> [ml EXCEPT !.pending =
                     Append(SubSeq(ml.pending, 1, PendingSize(ml) - 1),
                            [next EXCEPT !.Data = TruncatedText, !.lines = <<>>])],
          msg |-> <<>>]
    ELSE [ml |-> ml, msg |-> <<>>]

\* mutant: the cap is not checked
addPending_NoCap(ml, next) ==
    [ml |-> [ml EXCEPT !.pending = Append(ml.pending, next)], msg |-> <<>>]

\* mutant: every line over the cap leaves a marker
addPending_MarkerEveryTime(ml, next) ==
    IF PendingSize(ml) < maxLines
    THEN [ml |-> [ml EXCEPT !.pending = Append(ml.pending, next)], msg |-> <<>>]
    ELSE [ml |-> [ml EXCEPT !.pending =
                     Append(ml.pending, [next EXCEPT !.Data = TruncatedText, !.lines = <<>>])],
          msg |-> <<>>]

addPending(ml, next) ==
    IF PendingSize(ml) < maxLines
    THEN [ml |-> [ml EXCEPT !.pending = Append(ml.pending, next)], msg |-> <<>>]
    ELSE IF PendingSize(ml) = maxLines
    THEN [ml |-> [ml EXCEPT !.pending =
                     Append(ml.pending, [next EXCEPT !.Data = TruncatedText, !.lines = <<>>])],
          msg |-> <<>>]
    ELSE [ml |-> ml, msg |-> <<>>]

\* mutant: the line that starts the new group is not kept
StartNewLine_DropsNext(ml, next) ==
    [ml |-> [ml EXCEPT !.pending = <<>>], msg |-> Flush(ml)]

\* mutant: the flushed lines stay pending
StartNewLine_KeepsPending(ml, next) ==
    [ml |-> [ml EXCEPT !.pending = Append(ml.pending, next)], msg |-> Flush(ml)]

StartNewLine(ml, next) ==
    [ml |-> [ml EXCEPT !.pending = <<next>>], msg |-> Flush(ml)]

\* mutant: a continuation line that finds no pending line is dropped
Buffer_DropsOrphan(ml, next, t) ==
    LET touched == [ml EXCEPT !.LastTouched = t]
    IN  IF PendingSize(touched) = 0 /\ isMultiline(cfg, <<>>, next.Data)
        THEN [ml |-> touched, msg |-> <<>>]
        ELSE IF isContinuationMessage(touched, next)
        THEN addPending(touched, next)
        ELSE StartNewLine(touched, next)

\* mutant: LastTouched is refreshed only when the line is kept
Buffer_TouchesWhenKept(ml, next, t) ==
    LET touched == [ml EXCEPT !.LastTouched = t]
    IN  IF isContinuationMessage(touched, next)
        THEN IF PendingSize(ml) > maxLines THEN [ml |-> ml, msg |-> <<>>]
             ELSE addPending(touched, next)
        ELSE StartNewLine(touched, next)

\* Buffer at wall-clock time t
Buffer(ml, next, t) ==
    LET touched == [ml EXCEPT !.LastTouched = t]
    IN  IF isContinuationMessage(touched, next)
        THEN addPending(touched, next)
        ELSE StartNewLine(touched, next)

\* mutant: an age of exactly ttl counts as expired
isExpired_AtLeast(t, lastTouched, ttl) == t - lastTouched >= ttl

\* mutant: a buffer expires after twice the ttl
isExpired_TwiceTTL(t, lastTouched, ttl) == t - lastTouched > ttl + ttl

\* mutant: the subtraction is the wrong way round
isExpired_Reversed(t, lastTouched, ttl) == lastTouched - t > ttl

isExpired(t, lastTouched, ttl) == t - lastTouched > ttl

Expire(ml, t, ttl) ==
    IF isExpired(t, ml.LastTouched, ttl) THEN Flush(ml) ELSE <<>>

---------------------------------------------------------------------------
(* logstash.go: the adapter *)

\* mutant: the key of the older variant, the container ID alone
KeyOf_ContainerOnly(msg) == msg.ID

\* mutant: the key is the source alone
KeyOf_SourceOnly(msg) == msg.Source

KeyOf(msg) == msg.ID \o msg.Source

\* the cache key of stream s
StreamKey(s) == KeyOf([ID |-> s[1], Source |-> s[2]])

Keys == {StreamKey(s) : s \in Streams}

\* the cache after lookupBuffer(msg): the entry is created on first sight
lookupBuffer(c, msg) ==
    IF KeyOf(msg) \in DOMAIN c THEN c
    ELSE [k \in DOMAIN c \cup {KeyOf(msg)} |->
            IF k = KeyOf(msg) THEN NewMultiLine ELSE c[k]]

\* lookupBuffer panics: for a key not in the cache mkBuffer compiles the
\* pattern with regexp.MustCompile
lookupBufferPanics(c, msg) == KeyOf(msg) \notin DOMAIN c /\ ~Compiles(cfg.pattern)

\* Buffer panics: lookupBuffer drops NewMultiLine's error and caches the zero
\* MultiLine, whose matcher is nil; isContinuationMessage calls it as soon as
\* a line is pending
BufferPanics(ml) == NewMultiLineErr(cfg) /\ PendingSize(ml) # 0

\* mutant: the line refreshes LastTouched of every buffer
bufferMessage_TouchesAll(c, msg, t) ==
    LET c1 == lookupBuffer(c, msg)
        r == Buffer(c1[KeyOf(msg)], msg, t)
    IN  [cache |-> [k \in DOMAIN c1 |->
                      IF k = KeyOf(msg) THEN r.ml ELSE [c1[k] EXCEPT !.LastTouched = t]],
         msgs |-> r.msg]

\* bufferMessage: the cache afterwards and the records returned
bufferMessage(c, msg, t) ==
    LET c1 == lookupBuffer(c, msg)
        r == Buffer(c1[KeyOf(msg)], msg, t)
    IN  [cache |-> [c1 EXCEPT ![KeyOf(msg)] = r.ml], msgs |-> r.msg]

\* the keys expireCache deletes at tick time t
ExpiredKeys(c, t) == {k \in DOMAIN c : Expire(c[k], t, CacheTTL) # <<>>}

\* mutant: the sweep empties the cache
expireCache_RemovesAll(c, t, o) ==
    [cache |-> <<>>,
     msgs |-> Flatten([i \in DOMAIN o |-> Expire(c[o[i]], t, CacheTTL)])]

\* mutant: the flushed entries are not deleted
expireCache_KeepsEntries(c, t, o) ==
    [cache |-> c,
     msgs |-> Flatten([i \in DOMAIN o |-> Expire(c[o[i]], t, CacheTTL)])]

\* expireCache visiting the expired keys in order o
expireCache(c, t, o) ==
    [cache |-> [k \in DOMAIN c \ ExpiredKeys(c, t) |-> c[k]],
     msgs |-> Flatten([i \in DOMAIN o |-> Expire(c[o[i]], t, CacheTTL)])]

\* mutant: the last buffer visited is not flushed
flushPendingMessages_SkipsLast(c, o) ==
    [cache |-> c,
     msgs |-> Flatten([i \in 1..(Len(o) - 1) |-> Flush(c[o[i]])])]

\* flushPendingMessages visiting the keys in order o: no entry is deleted
flushPendingMessages(c, o) ==
    [cache |-> c,
     msgs |-> Flatten([i \in DOMAIN o |-> Flush(c[o[i]])])]

\* mutant: the batch is written last record first
sendMessages_Reversed(msgs, failAt) ==
    LET rev == [i \in 1..Len(msgs) |-> msgs[Len(msgs) + 1 - i]]
    IN  IF failAt = 0 THEN rev ELSE SubSeq(rev, 1, failAt)

\* sendMessages: write number failAt fails (0: every write succeeds); the
\* records handed to the writer, the failing one included
sendMessages(msgs, failAt) ==
    IF failAt = 0 THEN msgs ELSE SubSeq(msgs, 1, failAt)

---------------------------------------------------------------------------
(* The state machine *)

StreamOf(msg) == <<msg.ID, msg.Source>>

\* ev records the last event Stream handled: its kind, the line received (line
\* events), the tick's time stamp (ticks), the cache, the groups and the number
\* of written records before it, and the records it produced
NoEvent ==
    [kind |-> "none", line |-> <<>>, t |-> 0, before |-> <<>>,
     gbefore |-> [s \in Streams |-> <<>>], nw |-> 0, msgs |-> <<>>]

\* no tick handled since the last line: all counts the ticks, later those
\* whose time stamp is later than the buffer's LastTouched
NoTicks == [s \in Streams |-> [all |-> 0, later |-> 0]]

\* the functional variant is not in use
NoStep == [ml |-> [pending |-> <<>>, Last |-> <<>>, State |-> "Buffering"], read |-> <<>>]

Init ==
    /\ cfg \in Configs
    /\ cache = <<>>
    /\ now = 0
    /\ tickC = <<>>
    /\ sent = 0
    /\ closed = FALSE
    /\ pc = "running"
    /\ written = <<>>
    /\ ev = NoEvent
    /\ group = [s \in Streams |-> <<>>]
    /\ hist = [s \in Streams |-> <<>>]
    /\ ticks = NoTicks
    /\ heap = <<>>
    /\ step = NoStep

\* mutant: the records of an event are put in front of the earlier ones
Finish_WritesInFront(kind, line, t, res, quit, failAt) ==
    /\ cache' = res.cache
    /\ written' = sendMessages(res.msgs, failAt) \o written
    /\ pc' = IF failAt > 0 THEN "fatal" ELSE IF quit THEN "done" ELSE "running"
    /\ ev' = [kind |-> kind, line |-> line, t |-> t, before |-> cache,
              gbefore |-> group, nw |-> Len(written), msgs |-> res.msgs]

\* one iteration of Stream's loop: the event produced res.msgs, then
\* sendMessages, then the switch on the control code
Finish(kind, line, t, res, quit, failAt) ==
    /\ cache' = res.cache
    /\ written' = written \o sendMessages(res.msgs, failAt)
    /\ pc' = IF failAt > 0 THEN "fatal" ELSE IF quit THEN "done" ELSE "running"
    /\ ev' = [kind |-> kind, line |-> line, t |-> t, before |-> cache,
              gbefore |-> group, nw |-> Len(written), msgs |-> res.msgs]

\* the tick counts after expireCache(t) has visited the buffers of c; the
\* counts stop at MaxTime
TicksAfter(c, t) ==
    [s \in Streams |->
        IF StreamKey(s) \in DOMAIN c /\ ticks[s].all < MaxTime
        THEN [all |-> ticks[s].all + 1,
              later |-> ticks[s].later + (IF t > c[StreamKey(s)].LastTouched THEN 1 ELSE 0)]
        ELSE ticks[s]]

\* the clock advances; the ticker fires every CacheTTL and drops the tick
\* when its channel is full
Advance ==
    /\ now < MaxTime
    /\ now' = now + 1
    /\ tickC' = IF (now + 1) % CacheTTL = 0 /\ tickC = <<>> THEN <<now + 1>> ELSE tickC
    /\ UNCHANGED <<cfg, heap, step, ticks, cache, sent, closed, pc, written, ev, group, hist>>

\* the producer closes logstream
Close ==
    /\ ~closed
    /\ closed' = TRUE
    /\ UNCHANGED <<cfg, heap, step, ticks, cache, now, tickC, sent, pc, written, ev, group, hist>>

\* readMessages receives a line from logstream
BufferMessage(s, text, failAt) ==
    LET msg == [ID |-> s[1], Source |-> s[2], Time |-> sent + 1,
                Data |-> text, lines |-> <<sent + 1>>]
        c1 == lookupBuffer(cache, msg)
        panicsLookup == lookupBufferPanics(cache, msg)
        panicsBuffer == ~panicsLookup /\ BufferPanics(c1[KeyOf(msg)])
        res == bufferMessage(cache, msg, now)
        stored == \E i \in DOMAIN res.cache[KeyOf(msg)].pending :
                      res.cache[KeyOf(msg)].pending[i] = msg
    IN  /\ pc = "running"
        /\ ~closed
        /\ sent < MaxInput
        /\ sent' = sent + 1
        /\ IF panicsLookup \/ panicsBuffer
           THEN \* the goroutine panics: nothing is returned or written
                /\ failAt = 0
                /\ cache' = IF panicsLookup THEN cache
                            ELSE [c1 EXCEPT ![KeyOf(msg)].LastTouched = now]
                /\ pc' = "panic"
                /\ ev' = [kind |-> "line", line |-> <<msg>>, t |-> now, before |-> cache,
                          gbefore |-> group, nw |-> Len(written), msgs |-> <<>>]
                /\ UNCHANGED <<written, group, hist>>
           ELSE /\ failAt <= Len(res.msgs)
                /\ Finish("line", <<msg>>, now, res, FALSE, failAt)
                /\ group' = [group EXCEPT ![s] =
                                 IF res.msgs # <<>> THEN <<msg>> ELSE Append(@, msg)]
                /\ hist' = [hist EXCEPT ![s] =
                                Append(@, [kind |-> "line", msg |-> <<msg>>, stored |-> stored])]
        /\ ticks' = [ticks EXCEPT ![s] = [all |-> 0, later |-> 0]]
        /\ UNCHANGED <<cfg, heap, step, now, tickC, closed>>

\* readMessages receives a tick
ExpireCache(o, failAt) ==
    LET t == tickC[1]
        res == expireCache(cache, t, o)
        flushed == {s \in Streams : StreamKey(s) \in ExpiredKeys(cache, t)}
    IN  /\ pc = "running"
        /\ tickC # <<>>
        /\ o \in Orders(ExpiredKeys(cache, t))
        /\ failAt <= Len(res.msgs)
        /\ tickC' = <<>>
        /\ Finish("tick", <<>>, t, res, FALSE, failAt)
        /\ group' = [s \in Streams |-> IF s \in flushed THEN <<>> ELSE group[s]]
        /\ hist' = [s \in Streams |->
                      IF s \in flushed
                      THEN Append(hist[s], [kind |-> "expire", msg |-> <<>>, stored |-> FALSE])
                      ELSE hist[s]]
        /\ ticks' = TicksAfter(cache, t)
        /\ UNCHANGED <<cfg, heap, step, now, sent, closed>>

\* readMessages finds logstream closed
FlushPending(o, failAt) ==
    LET res == flushPendingMessages(cache, o)
        flushed == {s \in Streams : StreamKey(s) \in DOMAIN cache}
    IN  /\ pc = "running"
        /\ closed
        /\ o \in Orders(DOMAIN cache)
        /\ failAt <= Len(res.msgs)
        /\ Finish("close", <<>>, now, res, TRUE, failAt)
        /\ group' = [s \in Streams |-> IF s \in flushed THEN <<>> ELSE group[s]]
        /\ hist' = [s \in Streams |->
                      IF s \in flushed
                      THEN Append(hist[s], [kind |-> "close", msg |-> <<>>, stored |-> FALSE])
                      ELSE hist[s]]
        /\ UNCHANGED <<cfg, heap, step, ticks, now, tickC, sent, closed>>

\* the orders a range over the cache can take
KeyOrders == UNION {Orders(S) : S \in SUBSET Keys}

Next ==
    \/ Advance
    \/ Close
    \/ \E s \in Streams, text \in Texts, failAt \in 0..1 : BufferMessage(s, text, failAt)
    \/ \E o \in KeyOrders, failAt \in 0..Cardinality(Keys) : ExpireCache(o, failAt)
    \/ \E o \in KeyOrders, failAt \in 0..Cardinality(Keys) : FlushPending(o, failAt)

Spec == Init /\ [][Next]_vars

\* the adapter built from a route with an unknown group_with or a malformed
\* pattern: newLogstashAdapter checks neither
InitBadConfig ==
    /\ cfg \in AllConfigs \ Configs
    /\ cache = <<>>
    /\ now = 0
    /\ tickC = <<>>
    /\ sent = 0
    /\ closed = FALSE
    /\ pc = "running"
    /\ written = <<>>
    /\ ev = NoEvent
    /\ group = [s \in Streams |-> <<>>]
    /\ hist = [s \in Streams |-> <<>>]
    /\ ticks = NoTicks
    /\ heap = <<>>
    /\ step = NoStep

SpecBadConfig == InitBadConfig /\ [][Next]_vars

---------------------------------------------------------------------------
(* One MultiLine driven directly through its exported methods, as the      *)
(* package's tests do: cache holds the one buffer under the key "ml",      *)
(* written the records its methods returned.                               *)

\* NewMultiLine is handed a compiled pattern; beside the configurations of
\* the adapter the buffer is built with further caps and separators
BufferConfigs ==
    {c \in AllConfigs : Compiles(c.pattern)}
    \cup [groupWith : {"previous"}, negate : {FALSE}, maxLines : OtherMaxLinesOptions,
          pattern : {DefaultPattern}, separator : SeparatorOptions]
    \cup [groupWith : GroupWiths, negate : {FALSE}, maxLines : {<<>>},
          pattern : {DefaultPattern}, separator : OtherSeparatorOptions]

InitBuffer ==
    /\ cfg \in BufferConfigs
    /\ cache = [k \in {"ml"} |-> NewMultiLine]
    /\ now = 0
    /\ tickC = <<>>
    /\ sent = 0
    /\ closed = FALSE
    /\ pc = IF NewMultiLineErr(cfg) THEN "error" ELSE "running"
    /\ written = <<>>
    /\ ev = NoEvent
    /\ group = [s \in Streams |-> <<>>]
    /\ hist = [s \in Streams |-> <<>>]
    /\ ticks = NoTicks
    /\ heap = <<>>
    /\ step = NoStep

\* a method call of kind kind left the buffer as ml and returned msgs
Returned(kind, line, ml, msgs) ==
    /\ cache' = [cache EXCEPT !["ml"] = ml]
    /\ written' = written \o msgs
    /\ ev' = [kind |-> kind, line |-> line, t |-> now, before |-> cache,
              gbefore |-> group, nw |-> Len(written), msgs |-> msgs]
    /\ hist' = IF line = <<>> THEN hist
               ELSE [hist EXCEPT ![StreamOf(line[1])] =
                        Append(@, [kind |-> "line", msg |-> line,
                                   stored |-> \E i \in DOMAIN ml.pending :
                                                 ml.pending[i] = line[1]])]
    /\ UNCHANGED <<cfg, heap, step, ticks, now, tickC, closed, pc, group>>

\* ml.Buffer(line)
CallBuffer(text) ==
    LET msg == [ID |-> "c1", Source |-> "out", Time |-> sent + 1,
                Data |-> text, lines |-> <<sent + 1>>]
        r == Buffer(cache["ml"], msg, now)
    IN  /\ pc = "running"
        /\ sent < MaxInput
        /\ sent' = sent + 1
        /\ Returned("line", <<msg>>, r.ml, r.msg)

\* ml.Expire(now, ttl)
CallExpire ==
    /\ pc = "running"
    /\ Len(written) < MaxRecords
    /\ Returned("expire", <<>>, cache["ml"], Expire(cache["ml"], now, CacheTTL))
    /\ UNCHANGED sent

\* ml.Flush()
CallFlush ==
    /\ pc = "running"
    /\ Len(written) < MaxRecords
    /\ Returned("flush", <<>>, cache["ml"], Flush(cache["ml"]))
    /\ UNCHANGED sent

NextBuffer ==
    \/ Advance
    \/ \E text \in Texts : CallBuffer(text)
    \/ CallExpire
    \/ CallFlush

SpecBuffer == InitBuffer /\ [][NextBuffer]_vars

\* newLogstashAdapter reading the cache_ttl option, and Stream starting the
\* ticker with it. Durations are in milliseconds.

\* texts of the cache_ttl option (<<>>: not set): 5ms, 1s, 0, 0s, -1s, +1s,
\* 1 (no unit), s (no number), 1x (unknown unit), -, -0, 1s5ms
CacheTTLOptions ==
    {<<>>, <<"5", "m", "s">>, <<"1", "s">>, <<"0">>, <<"0", "s">>, <<"-", "1", "s">>,
     <<"+", "1", "s">>, <<"1">>, <<"s">>, <<"1", "x">>, <<"-">>, <<"-", "0">>,
     <<"1", "s", "5", "m", "s">>}

\* the default of cache_ttl: 10 * time.Second
defaultCacheTTL == 10 * 1000

\* the units of time.ParseDuration that the option texts use
UnitValue(u) == IF u = <<"m", "s">> THEN 1 ELSE IF u = <<"s">> THEN 1000 ELSE 0

\* the number of leading characters of s that are digits
RECURSIVE DigitPrefixLen(_)
DigitPrefixLen(s) ==
    IF s = <<>> \/ DigitValue(Head(s)) > 9 THEN 0 ELSE 1 + DigitPrefixLen(Tail(s))

\* the number of leading characters of s that are no digits
RECURSIVE UnitPrefixLen(_)
UnitPrefixLen(s) ==
    IF s = <<>> \/ DigitValue(Head(s)) <= 9 THEN 0 ELSE 1 + UnitPrefixLen(Tail(s))

\* the loop of time.ParseDuration: number, unit, and again
RECURSIVE ParseGroups(_)
ParseGroups(s) ==
    IF s = <<>> THEN [err |-> FALSE, val |-> 0]
    ELSE LET nd == DigitPrefixLen(s)
             afterNumber == SubSeq(s, nd + 1, Len(s))
             nu == UnitPrefixLen(afterNumber)
             unit == SubSeq(afterNumber, 1, nu)
             rest == ParseGroups(SubSeq(afterNumber, nu + 1, Len(afterNumber)))
         IN  IF nd = 0 \/ nu = 0 \/ UnitValue(unit) = 0 \/ rest.err
             THEN [err |-> TRUE, val |-> 0]
             ELSE [err |-> FALSE,
                   val |-> DigitsValue(SubSeq(s, 1, nd), 0) * UnitValue(unit) + rest.val]

\* time.ParseDuration on a short text without a fraction: an optional sign,
\* then 0 alone, or groups of a number and a unit
ParseDuration(s) ==
    LET signed == s # <<>> /\ Head(s) \in {"+", "-"}
        rest == IF signed THEN Tail(s) ELSE s
        d == ParseGroups(rest)
    IN  IF rest = <<"0">> THEN [err |-> FALSE, val |-> 0]
        ELSE IF rest = <<>> \/ d.err THEN [err |-> TRUE, val |-> 0]
        ELSE [err |-> FALSE, val |-> IF signed /\ Head(s) = "-" THEN 0 - d.val ELSE d.val]

\* a.cacheTTL for the option text s: the default replaces it only when
\* ParseDuration returns an error
cacheTTLOf(s) == IF ParseDuration(s).err THEN defaultCacheTTL ELSE ParseDuration(s).val

\* time.NewTicker panics when the interval is not positive
NewTickerPanics(d) == d <= 0

\* the adapter as newLogstashAdapter returns it
InitConstructed ==
    /\ cfg \in [groupWith : GroupWiths, negate : BOOLEAN, maxLines : MaxLinesOptions,
                pattern : {DefaultPattern}, separator : SeparatorOptions,
                cacheTTL : CacheTTLOptions]
    /\ cache = <<>>
    /\ now = 0
    /\ tickC = <<>>
    /\ sent = 0
    /\ closed = FALSE
    /\ pc = "constructed"
    /\ written = <<>>
    /\ ev = NoEvent
    /\ group = [s \in Streams |-> <<>>]
    /\ hist = [s \in Streams |-> <<>>]
    /\ ticks = NoTicks
    /\ heap = <<>>
    /\ step = NoStep

\* Stream starts: cacheTicker := time.NewTicker(a.cacheTTL).C
StartStream ==
    /\ pc = "constructed"
    /\ pc' = IF NewTickerPanics(cacheTTLOf(cfg.cacheTTL)) THEN "panic" ELSE "running"
    /\ UNCHANGED <<cfg, heap, step, ticks, cache, now, tickC, sent, closed, written, ev, group, hist>>

NextConstructed == StartStream

SpecConstructed == InitConstructed /\ [][NextConstructed]_vars

\* The adapter fed with lines of further (container ID, source) pairs:
\* another container with an ID of the same length, and a container whose
\* shorter ID is continued by its source

RoutedPairs == Streams \cup {<<"c2", "out">>, <<"c", "1out">>}

\* readMessages receives a line of the pair s; every write succeeds
RouteLine(s, text) ==
    LET msg == [ID |-> s[1], Source |-> s[2], Time |-> sent + 1,
                Data |-> text, lines |-> <<sent + 1>>]
        res == bufferMessage(cache, msg, now)
    IN  /\ pc = "running"
        /\ sent < MaxInput
        /\ sent' = sent + 1
        /\ cache' = res.cache
        /\ written' = written \o sendMessages(res.msgs, 0)
        /\ ev' = [kind |-> "line", line |-> <<msg>>, t |-> now, before |-> cache,
                  gbefore |-> group, nw |-> Len(written), msgs |-> res.msgs]
        /\ UNCHANGED <<cfg, heap, step, ticks, now, tickC, closed, pc, group, hist>>

NextRouting ==
    \/ Advance
    \/ \E s \in RoutedPairs, text \in Texts : RouteLine(s, text)

SpecRouting == Init /\ [][NextRouting]_vars

\* The two variants of the buffer over message objects. A *router.Message
\* is an address of heap; pending holds addresses; a new object gets the
\* address after the last one. The harness hands every line to both
\* variants, to each as an object of its own.

\* the texts of the objects at the addresses refs
TextsAt(h, refs) == [i \in 1..Len(refs) |-> h[refs[i]].Data]

\* mutant: Flush writes the joined text into the first pending object
FlushRef_InPlace(h, ml) ==
    IF Len(ml.pending) > 0
    THEN [heap |-> [h EXCEPT ![ml.pending[1]].Data = Join(TextsAt(h, ml.pending), separator)],
          msg |-> <<ml.pending[1]>>]
    ELSE [heap |-> h, msg |-> <<>>]

\* (ml *MultiLine) Flush: msg = new(router.Message), *msg = *ml.pending[0]
FlushRef(h, ml) ==
    IF Len(ml.pending) > 0
    THEN [heap |-> Append(h, [h[ml.pending[1]] EXCEPT
                                 !.Data = Join(TextsAt(h, ml.pending), separator)]),
          msg |-> <<Len(h) + 1>>]
    ELSE [heap |-> h, msg |-> <<>>]

\* (ml *MultiLine) addPending: truncMessage := *next is a copy
addPendingRef(h, ml, a) ==
    IF Len(ml.pending) < maxLines
    THEN [heap |-> h, ml |-> [ml EXCEPT !.pending = Append(ml.pending, a)], msg |-> <<>>]
    ELSE IF Len(ml.pending) = maxLines
    THEN [heap |-> Append(h, [h[a] EXCEPT !.Data = TruncatedText]),
          ml |-> [ml EXCEPT !.pending = Append(ml.pending, Len(h) + 1)],
          msg |-> <<>>]
    ELSE [heap |-> h, ml |-> ml, msg |-> <<>>]

StartNewLineRef(h, ml, a) ==
    LET f == FlushRef(h, ml)
    IN  [heap |-> f.heap, ml |-> [ml EXCEPT !.pending = <<a>>], msg |-> f.msg]

BufferRef(h, ml, a, t) ==
    LET touched == [ml EXCEPT !.LastTouched = t]
    IN  IF \/ Len(touched.pending) = 0
           \/ isMultiline(cfg, h[Last(touched.pending)].Data, h[a].Data)
        THEN addPendingRef(h, touched, a)
        ELSE StartNewLineRef(h, touched, a)

ExpireRef(h, ml, t, ttl) ==
    IF isExpired(t, ml.LastTouched, ttl) THEN FlushRef(h, ml) ELSE [heap |-> h, msg |-> <<>>]

\* addPending of the functional variant
Step_addPending(h, ml, a) ==
    LET kept == [ml EXCEPT !.Last = <<>>, !.State = "Buffering"]
    IN  IF Len(ml.pending) < maxLines
        THEN [heap |-> h, ml |-> [kept EXCEPT !.pending = Append(ml.pending, a)]]
        ELSE IF Len(ml.pending) = maxLines
        THEN [heap |-> Append(h, [h[a] EXCEPT !.Data = TruncatedText]),
              ml |-> [kept EXCEPT !.pending = Append(ml.pending, Len(h) + 1)]]
        ELSE [heap |-> h, ml |-> kept]

\* mutant: the record has the text of the first pending line only
Step_Flush_FirstLineOnly(h, ml, a) ==
    [heap |-> h,
     ml |-> [pending |-> <<a>>, Last |-> <<ml.pending[1]>>, State |-> "Flushed"]]

\* Flush of the functional variant: ml.Last = ml.pending[0], and the joined
\* text is written into that object
Step_Flush(h, ml, a) ==
    [heap |-> [h EXCEPT ![ml.pending[1]].Data = Join(TextsAt(h, ml.pending), separator)],
     ml |-> [pending |-> <<a>>, Last |-> <<ml.pending[1]>>, State |-> "Flushed"]]

Step(h, ml, a) ==
    IF Len(ml.pending) = 0 THEN Step_addPending(h, ml, a)
    ELSE IF isMultiline(cfg, h[Last(ml.pending)].Data, h[a].Data)
    THEN Step_addPending(h, ml, a)
    ELSE Step_Flush(h, ml, a)

InitObjects ==
    /\ cfg \in {c \in BufferConfigs : ~NewMultiLineErr(c)}
    /\ cache = [k \in {"ml"} |-> NewMultiLine]
    /\ now = 0
    /\ tickC = <<>>
    /\ sent = 0
    /\ closed = FALSE
    /\ pc = "running"
    /\ written = <<>>
    /\ ev = NoEvent
    /\ group = [s \in Streams |-> <<>>]
    /\ hist = [s \in Streams |-> <<>>]
    /\ ticks = NoTicks
    /\ heap = <<>>
    /\ step = NoStep

\* the next line goes to ml.Buffer as the object at a and to Step as the
\* object at b; the caller reads Last when State is Flushed
CallBufferAndStep(text) ==
    LET msg == [ID |-> "c1", Source |-> "out", Time |-> sent + 1, Data |-> text]
        a == Len(heap) + 1
        b == Len(heap) + 2
        r == BufferRef(heap \o <<msg, msg>>, cache["ml"], a, now)
        q == Step(r.heap, step.ml, b)
    IN  /\ sent < MaxInput
        /\ sent' = sent + 1
        /\ heap' = q.heap
        /\ cache' = [cache EXCEPT !["ml"] = r.ml]
        /\ written' = written \o [i \in 1..Len(r.msg) |-> [by |-> "Buffer", at |-> r.msg[i]]]
        /\ step' = [ml |-> q.ml,
                    read |-> IF q.ml.State = "Flushed"
                             THEN Append(step.read, q.heap[q.ml.Last[1]].Data)
                             ELSE step.read]
        /\ hist' = [hist EXCEPT ![<<"c1", "out">>] =
                        Append(@, [kind |-> "line", msg |-> <<msg>>, at |-> a, atStep |-> b])]
        /\ UNCHANGED <<cfg, now, tickC, closed, pc, ev, group, ticks>>

\* a call of ml.Expire or ml.Flush returned r
ReturnedRef(by, r) ==
    /\ Len(written) < MaxRecords
    /\ heap' = r.heap
    /\ written' = written \o [i \in 1..Len(r.msg) |-> [by |-> by, at |-> r.msg[i]]]
    /\ UNCHANGED <<cfg, cache, now, tickC, sent, closed, pc, ev, group, hist, ticks, step>>

\* ml.Expire(now, ttl)
CallExpireRef ==
    /\ pc = "running"
    /\ ReturnedRef("Expire", ExpireRef(heap, cache["ml"], now, CacheTTL))

\* ml.Flush()
CallFlushRef ==
    /\ pc = "running"
    /\ ReturnedRef("Flush", FlushRef(heap, cache["ml"]))

NextObjects ==
    \/ Advance
    \/ \E text \in Texts : CallBufferAndStep(text)
    \/ CallExpireRef
    \/ CallFlushRef

SpecObjects == InitObjects /\ [][NextObjects]_vars

\* Stream's loop step by step: readMessages handles one event and returns its
\* records, sendMessages then writes them one call of a.write at a time, and
\* the switch on the control code ends the iteration. The clock and the
\* producer run beside the worker.

\* mutant: the worker takes an event while sendMessages is still writing
AtSelect_WhileSending(p) == p \in {"running", "sending"}

\* the worker is at the select of readMessages
AtSelect(p) == p = "running"

\* the records of the last event that sendMessages has not written yet
Unsent == SubSeq(ev.msgs, Len(written) - ev.nw + 1, Len(ev.msgs))

\* readMessages returns res.msgs: the event is handled, sendMessages is next
Returned_readMessages(kind, line, t, res) ==
    /\ cache' = res.cache
    /\ pc' = "sending"
    /\ ev' = [kind |-> kind, line |-> line, t |-> t, before |-> cache,
              gbefore |-> group, nw |-> Len(written), msgs |-> res.msgs]
    /\ UNCHANGED written

\* readMessages receives a line from logstream
ReadLine(s, text) ==
    LET msg == [ID |-> s[1], Source |-> s[2], Time |-> sent + 1,
                Data |-> text, lines |-> <<sent + 1>>]
        c1 == lookupBuffer(cache, msg)
        panicsLookup == lookupBufferPanics(cache, msg)
        panicsBuffer == ~panicsLookup /\ BufferPanics(c1[KeyOf(msg)])
        res == bufferMessage(cache, msg, now)
        stored == \E i \in DOMAIN res.cache[KeyOf(msg)].pending :
                      res.cache[KeyOf(msg)].pending[i] = msg
    IN  /\ AtSelect(pc)
        /\ ~closed
        /\ sent < MaxInput
        /\ sent' = sent + 1
        /\ IF panicsLookup \/ panicsBuffer
           THEN /\ cache' = IF panicsLookup THEN cache
                            ELSE [c1 EXCEPT ![KeyOf(msg)].LastTouched = now]
                /\ pc' = "panic"
                /\ ev' = [kind |-> "line", line |-> <<msg>>, t |-> now, before |-> cache,
                          gbefore |-> group, nw |-> Len(written), msgs |-> <<>>]
                /\ UNCHANGED <<written, group, hist>>
           ELSE /\ Returned_readMessages("line", <<msg>>, now, res)
                /\ group' = [group EXCEPT ![s] =
                                 IF res.msgs # <<>> THEN <<msg>> ELSE Append(@, msg)]
                /\ hist' = [hist EXCEPT ![s] =
                                Append(@, [kind |-> "line", msg |-> <<msg>>, stored |-> stored])]
        /\ ticks' = [ticks EXCEPT ![s] = [all |-> 0, later |-> 0]]
        /\ UNCHANGED <<cfg, heap, step, now, tickC, closed>>

\* readMessages receives a tick
ReadTick(o) ==
    LET t == tickC[1]
        res == expireCache(cache, t, o)
        flushed == {s \in Streams : StreamKey(s) \in ExpiredKeys(cache, t)}
    IN  /\ AtSelect(pc)
        /\ tickC # <<>>
        /\ o \in Orders(ExpiredKeys(cache, t))
        /\ tickC' = <<>>
        /\ Returned_readMessages("tick", <<>>, t, res)
        /\ group' = [s \in Streams |-> IF s \in flushed THEN <<>> ELSE group[s]]
        /\ hist' = [s \in Streams |->
                      IF s \in flushed
                      THEN Append(hist[s], [kind |-> "expire", msg |-> <<>>, stored |-> FALSE])
                      ELSE hist[s]]
        /\ ticks' = TicksAfter(cache, t)
        /\ UNCHANGED <<cfg, heap, step, now, sent, closed>>

\* readMessages finds logstream closed
ReadClosed(o) ==
    LET res == flushPendingMessages(cache, o)
        flushed == {s \in Streams : StreamKey(s) \in DOMAIN cache}
    IN  /\ AtSelect(pc)
        /\ closed
        /\ o \in Orders(DOMAIN cache)
        /\ Returned_readMessages("close", <<>>, now, res)
        /\ group' = [s \in Streams |-> IF s \in flushed THEN <<>> ELSE group[s]]
        /\ hist' = [s \in Streams |->
                      IF s \in flushed
                      THEN Append(hist[s], [kind |-> "close", msg |-> <<>>, stored |-> FALSE])
                      ELSE hist[s]]
        /\ UNCHANGED <<cfg, heap, step, ticks, now, tickC, sent, closed>>

\* sendMessages hands the next record to a.write; a failed write ends the
\* process with log.Fatal
SendMessage(fails) ==
    /\ pc = "sending"
    /\ Unsent # <<>>
    /\ written' = Append(written, Head(Unsent))
    /\ pc' = IF fails THEN "fatal" ELSE "sending"
    /\ UNCHANGED <<cfg, heap, step, ticks, cache, now, tickC, sent, closed, ev, group, hist>>

\* mutant: Quit is taken for Continue
ControlSwitch_NeverQuits ==
    /\ pc = "sending"
    /\ Unsent = <<>>
    /\ pc' = "running"
    /\ UNCHANGED <<cfg, heap, step, ticks, cache, now, tickC, sent, closed, written, ev, group, hist>>

\* sendMessages has returned: Continue goes back to the select, Quit returns
ControlSwitch ==
    /\ pc = "sending"
    /\ Unsent = <<>>
    /\ pc' = IF ev.kind = "close" THEN "done" ELSE "running"
    /\ UNCHANGED <<cfg, heap, step, ticks, cache, now, tickC, sent, closed, written, ev, group, hist>>

NextSteps ==
    \/ Advance
    \/ Close
    \/ \E s \in Streams, text \in Texts : ReadLine(s, text)
    \/ \E o \in KeyOrders : ReadTick(o)
    \/ \E o \in KeyOrders : ReadClosed(o)
    \/ \E fails \in BOOLEAN : SendMessage(fails)
    \/ ControlSwitch

SpecSteps == Init /\ [][NextSteps]_vars

\* The loop running for ever. The clock of the model stops at MaxTime; the
\* ticker goes on firing, with that time stamp. The select of readMessages
\* chooses fairly between the ready cases (strong fairness of the close
\* case, which a pending write disables), every a.write returns, and the
\* switch is taken.

\* the configurations with the default cap
LiveConfigs == {c \in Configs : c.maxLines = <<>> /\ ~c.negate}

InitLive == Init /\ cfg \in LiveConfigs

TickerFires ==
    /\ now = MaxTime
    /\ tickC = <<>>
    /\ tickC' = <<now>>
    /\ UNCHANGED <<cfg, heap, step, ticks, cache, now, sent, closed, pc, written, ev, group, hist>>

NextLive == NextSteps \/ TickerFires

SpecLive ==
    /\ InitLive
    /\ [][NextLive]_vars
    /\ SF_vars(\E o \in KeyOrders : ReadClosed(o))
    /\ WF_vars(\E fails \in BOOLEAN : SendMessage(fails))
    /\ WF_vars(ControlSwitch)

\* sendMessage on one record: serialize builds the document and a.write gets
\* it. The record's text is given by what json.Unmarshal and javaLogPattern
\* find in it: json is "object" (a JSON object with the fields of fields),
\* "null" (the JSON text null) or "none" (anything else); java says whether
\* javaLogPattern matches the text. Every value of a document is [t, v].

JsonFields == {"message", "status", "docker", "javaLog"}

JsonValues == {[t |-> "app", v |-> "x"], [t |-> "app", v |-> "y"]}

\* the JSON objects: each field absent or with one of the values
JsonObjects == UNION {[F -> JsonValues] : F \in SUBSET JsonFields}

RecordTexts ==
    [json : {"object"}, fields : JsonObjects, java : BOOLEAN]
        \cup [json : {"null"}, fields : {<<>>}, java : {FALSE}]
        \cup [json : {"none"}, fields : {<<>>}, java : BOOLEAN]

\* the record's whole text as a value of the document
WholeText == [t |-> "data", v |-> "msg.Data"]

\* parseJavaMsg: the javaLog structure and the trimmed message part when the
\* pattern matches, otherwise no javaLog and the text itself
parseJavaMsg(d) ==
    IF d.java
    THEN [javaLog |-> <<[t |-> "javaLog", v |-> "match[1..5]"]>>,
          parsedMsg |-> [t |-> "data", v |-> "trimmed match[6]"]]
    ELSE [javaLog |-> <<>>, parsedMsg |-> WholeText]

DockerInfoOf(msg) == [t |-> "docker", v |-> msg.ID]

ComponentInfoOf(msg) == [t |-> "component", v |-> "labels"]

\* serialize panics: json.Unmarshal of null succeeds and leaves the map nil,
\* and the assignment to an entry of the nil map panics
serializePanics(msg) == msg.Data.json = "null"

\* serialize: the document marshalled. Text that is no JSON object gives a
\* LogstashMessage; a JSON object gets docker, javaLog (when the pattern
\* matches), component and message assigned, over its own fields of these names
serialize(msg) ==
    LET d == msg.Data
        parsed == parseJavaMsg(d)
        added == {"docker", "component", "message"}
                     \cup (IF parsed.javaLog # <<>> THEN {"javaLog"} ELSE {})
    IN  IF d.json = "none"
        THEN [k \in {"message", "stream", "docker", "component"}
                       \cup (IF parsed.javaLog # <<>> THEN {"javaLog"} ELSE {}) |->
                 IF k = "message" THEN parsed.parsedMsg
                 ELSE IF k = "stream" THEN [t |-> "stream", v |-> msg.Source]
                 ELSE IF k = "docker" THEN DockerInfoOf(msg)
                 ELSE IF k = "component" THEN ComponentInfoOf(msg)
                 ELSE parsed.javaLog[1]]
        ELSE [k \in DOMAIN d.fields \cup added |->
                 IF k \notin added THEN d.fields[k]
                 ELSE IF k = "docker" THEN DockerInfoOf(msg)
                 ELSE IF k = "javaLog" THEN parsed.javaLog[1]
                 ELSE IF k = "component" THEN ComponentInfoOf(msg)
                 ELSE parsed.parsedMsg]

\* sendMessages is about to send one record of a stream
InitSerialize ==
    /\ cfg \in Configs
    /\ cache = <<>>
    /\ now = 0
    /\ tickC = <<>>
    /\ sent = 0
    /\ closed = FALSE
    /\ pc = "sending"
    /\ written = <<>>
    /\ \E s \in Streams, d \in RecordTexts :
          ev = [NoEvent EXCEPT !.kind = "record",
                               !.msgs = <<[ID |-> s[1], Source |-> s[2], Data |-> d]>>]
    /\ group = [s \in Streams |-> <<>>]
    /\ hist = [s \in Streams |-> <<>>]
    /\ ticks = NoTicks
    /\ heap = <<>>
    /\ step = NoStep

\* sendMessage: serialize, then a.write; a failed write ends the process
SendSerialized(fails) ==
    /\ pc = "sending"
    /\ IF serializePanics(ev.msgs[1])
       THEN /\ ~fails
            /\ pc' = "panic"
            /\ UNCHANGED written
       ELSE /\ written' = Append(written, serialize(ev.msgs[1]))
            /\ pc' = IF fails THEN "fatal" ELSE "done"
    /\ UNCHANGED <<cfg, heap, step, ticks, cache, now, tickC, sent, closed, ev, group, hist>>

NextSerialize == \E fails \in BOOLEAN : SendSerialized(fails)

SpecSerialize == InitSerialize /\ [][NextSerialize]_vars

TypeOK ==
    /\ cfg \in [groupWith : GroupWiths \cup UnknownGroupWiths, negate : BOOLEAN,
                maxLines : MaxLinesOptions \cup OtherMaxLinesOptions,
                pattern : {DefaultPattern, MalformedPattern},
                separator : SeparatorOptions \cup OtherSeparatorOptions]
    /\ DOMAIN cache \subseteq Keys \cup {"ml"}
    /\ now \in 0..MaxTime
    /\ Len(tickC) <= 1
    /\ sent \in 0..MaxInput
    /\ closed \in BOOLEAN
    /\ pc \in {"running", "sending", "done", "fatal", "panic", "error"}

---------------------------------------------------------------------------
(* Reference definitions used by the properties *)

\* the texts elems joined by sep, built from the right
RECURSIVE Joined(_, _)
Joined(elems, sep) ==
    IF elems = <<>> THEN <<>>
    ELSE IF Len(elems) = 1 THEN Last(elems)
    ELSE Joined(SubSeq(elems, 1, Len(elems) - 1), sep) \o sep \o Last(elems)

DataOf(ms) == [i \in DOMAIN ms |-> ms[i].Data]

TimesOf(ms) == [i \in DOMAIN ms |-> ms[i].Time]

\* a pending entry that is the "[Truncated]" marker, not a received line
IsMarker(m) == m.lines = <<>>

\* the records of batch msgs that carry stream s's identity
RecordsOf(msgs, s) == SelectSeq(msgs, LAMBDA r : StreamOf(r) = s)

---------------------------------------------------------------------------
(* C6 *)

\* C6 as stated: in every reachable state every buffer holds at most maxLines
\* pending lines.
C6_PendingAtMostMaxLines ==
    \A k \in DOMAIN cache : PendingSize(cache[k]) <= maxLines

\* C6, amended: every buffer holds at most maxLines received lines, plus at
\* most the one "[Truncated]" marker, so at most maxLines + 1 pending entries.
C6_PendingAtMostMaxLinesPlusMarker ==
    \A k \in DOMAIN cache :
        /\ PendingSize(cache[k]) <= maxLines + 1
        /\ Cardinality({i \in DOMAIN cache[k].pending : ~IsMarker(cache[k].pending[i])})
              <= maxLines

C6_Witness ==
    \E k \in DOMAIN cache :
        /\ PendingSize(cache[k]) = maxLines + 1
        /\ IsMarker(Last(cache[k].pending))
        /\ \E s \in Streams : StreamKey(s) = k /\ Len(group[s]) > maxLines + 1

---------------------------------------------------------------------------
(* C3 *)

\* the input lines whose text the entries ms hold
LinesOf(ms) == Flatten([i \in DOMAIN ms |-> ms[i].lines])

\* r is the record of the pending entries ms: their texts joined in order,
\* under the identity of the first entry
IsRecordOf(r, ms) ==
    /\ ms # <<>>
    /\ r.Data = Joined(DataOf(ms), separator)
    /\ r.lines = LinesOf(ms)
    /\ StreamOf(r) = StreamOf(ms[1])
    /\ r.Time = ms[1].Time

\* C3: when a line is admitted to a non-empty buffer and the matcher is false
\* for (last pending text, line text), the call returns the record of the
\* pending lines and afterwards the pending lines are exactly the new line.
C3_NonContinuationReturnsPreviousGroup ==
    ev.kind = "line" =>
        LET m == ev.line[1]
            k == KeyOf(m)
        IN  (/\ k \in DOMAIN ev.before
             /\ ev.before[k].pending # <<>>
             /\ ~isMultiline(cfg, Last(ev.before[k].pending).Data, m.Data))
            => /\ Len(ev.msgs) = 1
               /\ IsRecordOf(ev.msgs[1], ev.before[k].pending)
               /\ cache[k].pending = <<m>>

C3_Witness ==
    /\ ev.kind = "line"
    /\ KeyOf(ev.line[1]) \in DOMAIN ev.before
    /\ Len(ev.before[KeyOf(ev.line[1])].pending) >= 2
    /\ ~isMultiline(cfg, Last(ev.before[KeyOf(ev.line[1])].pending).Data, ev.line[1].Data)
    /\ Len(ev.msgs) = 1
    /\ cache[KeyOf(ev.line[1])].pending = ev.line

---------------------------------------------------------------------------
(* C7 *)

\* C7 as stated: at every expiry sweep, a buffer whose last admission is more
\* than cache_ttl of wall-clock time ago is emitted.
C7_SweepEmitsWhenTTLElapsed ==
    [][(tickC # <<>> /\ tickC' = <<>>) =>
          \A k \in DOMAIN cache :
              now - cache[k].LastTouched > CacheTTL =>
                  \E i \in DOMAIN ev'.msgs : KeyOf(ev'.msgs[i]) = k]_vars

\* C7, amended: at every expiry sweep, a buffer whose last admission is more
\* than cache_ttl before the time stamp of the sweep's tick is emitted by the
\* sweep itself: its record is produced, handed to the writer in the same
\* step, and the buffer leaves the cache.
C7_SweepEmitsWhenOlderThanTick ==
    ev.kind = "tick" =>
        \A s \in Streams :
            (/\ StreamKey(s) \in DOMAIN ev.before
             /\ ev.t - ev.before[StreamKey(s)].LastTouched > CacheTTL)
            => /\ Len(RecordsOf(ev.msgs, s)) = 1
               /\ IsRecordOf(RecordsOf(ev.msgs, s)[1], ev.before[StreamKey(s)].pending)
               /\ StreamKey(s) \notin DOMAIN cache
               /\ pc = "running" => SubSeq(written, ev.nw + 1, Len(written)) = ev.msgs

C7_Witness ==
    /\ ev.kind = "tick"
    /\ ~closed
    /\ pc = "running"
    /\ \E s \in Streams :
          /\ Len(ev.gbefore[s]) = 1
          /\ StreamKey(s) \in DOMAIN ev.before
          /\ ev.t - ev.before[StreamKey(s)].LastTouched > CacheTTL
          /\ written # <<>>
          /\ Last(written).lines = <<ev.gbefore[s][1].Time>>

---------------------------------------------------------------------------
(* C8 *)

\* C8: Expire(t, ttl) returns a record if and only if t - LastTouched > ttl
\* (and lines are pending); when t - LastTouched <= ttl it returns nothing and
\* the buffer keeps its pending lines and LastTouched.
C8_ExpireIffOlderThanTTL ==
    ev.kind = "tick" =>
        \A k \in DOMAIN ev.before :
            LET ml == ev.before[k]
                recs == SelectSeq(ev.msgs, LAMBDA r : KeyOf(r) = k)
            IN  /\ Len(recs) <= 1
                /\ (ev.t - ml.LastTouched > CacheTTL /\ ml.pending # <<>>) <=> (recs # <<>>)
                /\ recs # <<>> => IsRecordOf(recs[1], ml.pending)
                /\ ev.t - ml.LastTouched <= CacheTTL =>
                      (k \in DOMAIN cache /\ cache[k] = ml)

C8_Witness ==
    /\ ev.kind = "tick"
    /\ \E k \in DOMAIN ev.before :
          /\ ev.t - ev.before[k].LastTouched = CacheTTL
          /\ k \in DOMAIN cache
    /\ \E k \in DOMAIN ev.before :
          /\ ev.t - ev.before[k].LastTouched = CacheTTL + 1
          /\ k \notin DOMAIN cache
          /\ ev.msgs # <<>>

---------------------------------------------------------------------------
(* C9, C10 *)

\* the keys of the buffers that hold pending lines before the last event
PendingKeys == {k \in DOMAIN ev.before : ev.before[k].pending # <<>>}

\* C9: when the closed stream is observed, one record is produced for every
\* cached buffer with pending lines and nothing else, and the worker stops;
\* Stream returns only from that event, with the records written, and no event
\* (tick or line) is handled and no record written afterwards.
C9_CloseDrainsThenStops ==
    /\ ev.kind = "close" =>
          /\ pc # "running"
          /\ Len(ev.msgs) = Cardinality(PendingKeys)
          /\ \A k \in PendingKeys :
                \E i \in DOMAIN ev.msgs :
                    KeyOf(ev.msgs[i]) = k /\ IsRecordOf(ev.msgs[i], ev.before[k].pending)
    /\ pc = "done" =>
          /\ ev.kind = "close"
          /\ Len(written) = ev.nw + Len(ev.msgs)
          /\ SubSeq(written, ev.nw + 1, Len(written)) = ev.msgs

C9_Witness ==
    /\ pc = "done"
    /\ Len(ev.msgs) = 2
    /\ tickC # <<>>
    /\ now > ev.t

\* C10: after the terminal drain the cache contains no entries.
C10_CacheEmptyAfterDrain ==
    ev.kind = "close" => DOMAIN cache = {}

---------------------------------------------------------------------------
(* C1 *)

\* the places (record, position) where line id occurs in the written records
Occurrences(id) ==
    {p \in UNION {{i} \X DOMAIN written[i].lines : i \in DOMAIN written} :
        written[p[1]].lines[p[2]] = id}

\* the lines that were stored in a buffer when they were received
StoredLines ==
    UNION {{hist[s][i].msg[1].Time : i \in {j \in DOMAIN hist[s] : hist[s][j].stored}} :
             s \in Streams}

\* the lines that were received and not stored (replaced by the marker or dropped)
DroppedLines == (1..sent) \ StoredLines

\* C1: whatever the interleaving of lines, ticks and the close, no line occurs
\* twice in the written records, and when Stream has returned every line that
\* was stored in a buffer occurs in exactly one written record.
C1_ExactlyOnce ==
    /\ \A id \in 1..sent : Cardinality(Occurrences(id)) <= 1
    /\ pc = "done" => \A id \in StoredLines : Cardinality(Occurrences(id)) = 1

C1_Witness ==
    /\ pc = "done"
    /\ ev.msgs # <<>>
    /\ Len(written) >= 2
    /\ \E s \in Streams : \E i \in DOMAIN hist[s] : hist[s][i].kind = "expire"
    /\ DroppedLines # {}
    /\ \A id \in StoredLines : Cardinality(Occurrences(id)) = 1

---------------------------------------------------------------------------
(* C2, C5 *)

\* every line of ms after the first satisfies the continuation predicate
\* against its predecessor
IsChain(ms) == \A i \in 2..Len(ms) : isMultiline(cfg, ms[i - 1].Data, ms[i].Data)

\* C2: under previous grouping, while the lines received on a stream since its
\* last record form a chain of continuations no longer than max_lines, no
\* record is produced for them, and the record of the flush that follows has
\* the text of all these lines joined by the separator in order.
C2_ContinuationsCoalesce ==
    cfg.groupWith = "previous" =>
        /\ ev.kind = "line" =>
              LET G == Append(ev.gbefore[StreamOf(ev.line[1])], ev.line[1])
              IN  (IsChain(G) /\ Len(G) <= maxLines) => ev.msgs = <<>>
        /\ \A s \in Streams :
              LET G == ev.gbefore[s]
                  recs == RecordsOf(ev.msgs, s)
              IN  (recs # <<>> /\ IsChain(G) /\ Len(G) <= maxLines)
                  => /\ Len(recs) = 1
                     /\ recs[1].Data = Joined(DataOf(G), separator)
                     /\ recs[1].lines = TimesOf(G)

C2_Witness ==
    /\ cfg.groupWith = "previous"
    /\ ev.kind # "line"
    /\ \E s \in Streams :
          /\ Len(ev.gbefore[s]) = 2
          /\ IsChain(ev.gbefore[s])
          /\ Len(ev.gbefore[s]) <= maxLines
          /\ RecordsOf(ev.msgs, s) # <<>>
          /\ RecordsOf(ev.msgs, s)[1].Data = <<"a", "\n", " ", "b">>

\* C5: when the lines received on a stream since its last record (the first
\* line and the lines admitted as continuations) number more than max_lines,
\* the flushed record is the first max_lines lines and one "[Truncated]"
\* line, joined by the separator; the lines beyond the cap are exactly the
\* lines that are not stored, and none of them occurs in a written record.
C5_TruncatedRecord ==
    /\ \A s \in Streams :
          LET G == ev.gbefore[s]
              recs == RecordsOf(ev.msgs, s)
          IN  (recs # <<>> /\ Len(G) > maxLines)
              => /\ Len(recs) = 1
                 /\ recs[1].Data =
                       Joined(Append(DataOf(SubSeq(G, 1, maxLines)), TruncatedText), separator)
                 /\ recs[1].lines = TimesOf(SubSeq(G, 1, maxLines))
    /\ \A s \in Streams : \A i \in DOMAIN group[s] :
          (i > maxLines) <=> (group[s][i].Time \in DroppedLines)
    /\ \A id \in DroppedLines : Occurrences(id) = {}

C5_Witness ==
    \E s \in Streams :
        /\ Len(ev.gbefore[s]) = maxLines + 2
        /\ RecordsOf(ev.msgs, s) # <<>>
        /\ written # <<>>
        /\ Last(written) = RecordsOf(ev.msgs, s)[1]
        /\ Len(Last(written).lines) = maxLines
        /\ Cardinality(DroppedLines) = 2

---------------------------------------------------------------------------
(* C4 *)

\* the records a worker produces that receives only the events h of one
\* stream, with the same flushes, starting from cache c
RECURSIVE SoloRun(_, _, _)
SoloRun(h, c, out) ==
    IF h = <<>> THEN out
    ELSE LET e == Head(h)
         IN  IF e.kind = "line"
             THEN LET r == bufferMessage(c, e.msg[1], 0)
                  IN  SoloRun(Tail(h), r.cache, out \o r.msgs)
             ELSE LET r == flushPendingMessages(c, IF DOMAIN c = {} THEN <<>>
                                                   ELSE <<CHOOSE k \in DOMAIN c : TRUE>>)
                  IN  SoloRun(Tail(h), IF e.kind = "expire" THEN <<>> ELSE r.cache,
                              out \o r.msgs)

IsPrefix(a, b) == Len(a) <= Len(b) /\ SubSeq(b, 1, Len(a)) = a

\* C4: whatever the interleaving of the streams, the records written for each
\* stream are those the stream's own lines and flushes produce when they are
\* the only input (up to the write that failed, when the worker has died).
C4_StreamsIndependent ==
    \A s \in Streams :
        IF pc = "fatal"
        THEN IsPrefix(RecordsOf(written, s), SoloRun(hist[s], <<>>, <<>>))
        ELSE RecordsOf(written, s) = SoloRun(hist[s], <<>>, <<>>)

C4_Witness ==
    /\ pc = "done"
    /\ \A s \in Streams : RecordsOf(written, s) # <<>>
    /\ \E s \in Streams :
          /\ Len(RecordsOf(written, s)) = 2
          /\ RecordsOf(written, s)[1].Time = 1
          /\ RecordsOf(written, s)[2].Time = 3

---------------------------------------------------------------------------
(* C11, C12: one buffer under SpecBuffer *)

\* C11: every record a buffer returns comes from exactly one flush: once
\* Expire or Flush has returned a record the buffer's pending lines are empty,
\* and no admitted line occurs in two of the records the buffer returned.
C11_RecordFromOneFlush ==
    /\ (ev.kind \in {"expire", "flush"} /\ ev.msgs # <<>>) => cache["ml"].pending = <<>>
    /\ \A id \in 1..sent : Cardinality(Occurrences(id)) <= 1

\* C12: Flush or Expire on a buffer without pending lines returns no record
\* and leaves the buffer as it was.
C12_FlushOfEmptyIsNoOp ==
    (ev.kind \in {"expire", "flush"} /\ ev.before["ml"].pending = <<>>)
        => (ev.msgs = <<>> /\ cache = ev.before)

\* Expire on the new buffer, at a time at which it counts as expired
C12_Witness ==
    /\ ev.kind = "expire"
    /\ ev.before["ml"].pending = <<>>
    /\ isExpired(ev.t, ev.before["ml"].LastTouched, CacheTTL)
    /\ written = <<>>

---------------------------------------------------------------------------
(* C13, C14: the matchers, under SpecBuffer *)

\* texts on which the matchers are compared
MatcherTexts ==
    {<<>>, <<"a">>, <<" ", "b">>, <<"\t">>, CausedBy, <<"a">> \o CausedBy, CausedBy \o <<" ", "x">>}

\* the text the pattern is to be tested on under grouping g
SelectedText(g, lastText, currentText) == IF g = "previous" THEN currentText ELSE lastText

\* the last call was Buffer on a buffer with pending lines
BufferedOnPending == ev.kind = "line" /\ ev.before["ml"].pending # <<>>

\* C13: the previous matcher is the pattern on the current text and the next
\* matcher is the pattern on the last pending text, whatever the other text
\* is; Buffer continues the group accordingly (negate off).
C13_MatcherSelectsText ==
    /\ \A x \in MatcherTexts, y \in MatcherTexts, z \in MatcherTexts :
          /\ previousMatcher(x, z) = previousMatcher(y, z)
          /\ previousMatcher(x, z) = PatternMatch(z)
          /\ nextMatcher(z, x) = nextMatcher(z, y)
          /\ nextMatcher(z, x) = PatternMatch(z)
    /\ (BufferedOnPending /\ ~cfg.negate)
          => (ev.msgs = <<>>
                <=> PatternMatch(SelectedText(cfg.groupWith,
                                              Last(ev.before["ml"].pending).Data,
                                              ev.line[1].Data)))

\* next grouping: an unindented line continues the group after an indented one
C13_Witness ==
    /\ BufferedOnPending
    /\ ~cfg.negate
    /\ cfg.groupWith = "next"
    /\ Last(ev.before["ml"].pending).Data = <<" ", "b">>
    /\ ev.line[1].Data = <<"a">>
    /\ ev.msgs = <<>>
    /\ Last(cache["ml"].pending) = ev.line[1]

\* C14: with negate the matcher is the negation of the matcher without it,
\* for both groupings and every pair of texts; Buffer continues the group
\* exactly when the pattern does not match the selected text.
C14_NegateInverts ==
    /\ \A g \in GroupWiths, x \in MatcherTexts, y \in MatcherTexts :
          isMultiline([cfg EXCEPT !.groupWith = g, !.negate = TRUE], x, y)
             = ~isMultiline([cfg EXCEPT !.groupWith = g, !.negate = FALSE], x, y)
    /\ (BufferedOnPending /\ cfg.negate)
          => (ev.msgs = <<>>
                <=> ~PatternMatch(SelectedText(cfg.groupWith,
                                               Last(ev.before["ml"].pending).Data,
                                               ev.line[1].Data)))

\* negate and previous grouping: a line that does not match continues the group
C14_Witness ==
    /\ BufferedOnPending
    /\ cfg.negate
    /\ cfg.groupWith = "previous"
    /\ ~PatternMatch(ev.line[1].Data)
    /\ ev.msgs = <<>>
    /\ Len(cache["ml"].pending) = 2
    /\ Last(cache["ml"].pending) = ev.line[1]

---------------------------------------------------------------------------
(* C15: NewMultiLine, under SpecBuffer *)

\* C15: NewMultiLine returns an error exactly when GroupWith is neither
\* "previous" nor "next"; with the error it returns the zero MultiLine, which
\* the caller that checks the error never calls.
C15_UnknownGroupWithIsError ==
    /\ NewMultiLineErr(cfg) <=> cfg.groupWith \notin {"previous", "next"}
    /\ pc = "error" <=> cfg.groupWith \notin {"previous", "next"}
    /\ pc = "error" => (cache["ml"] = [pending |-> <<>>, LastTouched |-> 0]
                        /\ maxLines = 0 /\ sent = 0 /\ written = <<>>)

C15_Witness ==
    /\ pc = "error"
    /\ cfg.groupWith = "Previous"
    /\ now = 1

---------------------------------------------------------------------------
(* C16, C17: the adapter with a configuration that is not well formed,     *)
(* under SpecBadConfig                                                     *)

\* C16: with a group_with that is not a matcher type the adapter does not
\* come into being: no buffer built from the configuration is in the cache,
\* none admits a line and no record is written.
C16_NoBufferFromUnknownGroupWith ==
    NewMultiLineErr(cfg) => (DOMAIN cache = {} /\ written = <<>>)

\* C17: a malformed pattern does not make the worker fail while it routes a
\* line to a buffer.
C17_MalformedPatternNeverFailsOnLine ==
    ~Compiles(cfg.pattern) => ~(ev.kind = "line" /\ pc = "panic")

---------------------------------------------------------------------------
(* C18, C19, C20: the writer *)

\* the records handed to the writer during the last event
WrittenByEvent == SubSeq(written, ev.nw + 1, Len(written))

\* C18: during an event the writer is called once for each record the event
\* produced, in the order of production, and for nothing else (up to the
\* write that failed, with which the process ends).
C18_WriterCalledOncePerRecordInOrder ==
    /\ ev.nw <= Len(written)
    /\ IsPrefix(WrittenByEvent, ev.msgs)
    /\ pc # "fatal" => WrittenByEvent = ev.msgs
    /\ pc = "fatal" => WrittenByEvent # <<>>

\* a sweep that flushed two buffers
C18_Witness ==
    /\ ev.kind = "tick"
    /\ Len(ev.msgs) = 2
    /\ pc = "running"
    /\ ev.nw = 1
    /\ written = <<written[1]>> \o ev.msgs

\* C19: when a write fails, the records queued after it in the batch of the
\* event are not dropped: each of them is still handed to the writer.
C19_FailedWriteKeepsRestOfBatch ==
    pc = "fatal" => Len(WrittenByEvent) = Len(ev.msgs)

\* the cache the last event leaves when its emission succeeds
CacheAfterEvent ==
    IF ev.kind = "line" THEN bufferMessage(ev.before, ev.line[1], ev.t).cache
    ELSE IF ev.kind = "tick" THEN expireCache(ev.before, ev.t, <<>>).cache
    ELSE ev.before

\* the buffers the engine holds: none once log.Fatal has ended the process
HeldBuffers == IF pc = "fatal" THEN <<>> ELSE cache

---------------------------------------------------------------------------
(* C22: the record of a flush, under SpecBuffer *)

\* the separator the configuration asks for
ConfiguredSeparator == IF cfg.separator = <<>> THEN <<"\n">> ELSE cfg.separator[1]

\* C22: the record returned by a non-continuation Buffer call, by Expire or
\* by Flush has the texts of the lines that were pending, joined by the
\* configured separator in arrival order, and the container, source and time
\* of the first pending line.
C22_RecordIsPendingJoined ==
    /\ Len(ev.msgs) <= 1
    /\ \A i \in DOMAIN ev.msgs :
          LET p == ev.before["ml"].pending
              r == ev.msgs[i]
          IN  /\ p # <<>>
              /\ r.Data = Joined(DataOf(p), ConfiguredSeparator)
              /\ r.ID = p[1].ID
              /\ r.Source = p[1].Source
              /\ r.Time = p[1].Time

\* a record of two lines joined by a configured bar
C22_Witness ==
    /\ ev.kind = "line"
    /\ cfg.separator = << <<"|">> >>
    /\ Len(ev.msgs) = 1
    /\ ev.msgs[1].Data = <<"a", "|", " ", "b">>
    /\ ev.msgs[1].Time = 1
    /\ ev.line[1].Time = 3

---------------------------------------------------------------------------
(* C24: the line cap, under SpecBuffer *)

\* the cap the max_lines option of the configuration stands for
ExpectedCap ==
    CASE cfg.maxLines = <<"1">> -> 1
      [] cfg.maxLines = <<"2">> -> 2
      [] cfg.maxLines = <<"+", "2">> -> 2
      [] OTHER -> 1024

\* C24: the cap of the buffer is the max_lines option when that is a
\* positive integer and 1024 when it is not set, not a number, zero or
\* negative: lines are stored up to that cap, and a marker stands only right
\* after it.
C24_CapIsMaxLinesOrDefault ==
    ~NewMultiLineErr(cfg) =>
        /\ maxLines = ExpectedCap
        /\ \A i \in DOMAIN cache["ml"].pending :
              IsMarker(cache["ml"].pending[i]) <=> i = ExpectedCap + 1
        /\ (ev.kind = "line" /\ ev.msgs = <<>> /\ Len(ev.before["ml"].pending) < ExpectedCap)
              => cache["ml"].pending = Append(ev.before["ml"].pending, ev.line[1])

\* max_lines = -1: three lines are pending and none is a marker
C24_Witness ==
    /\ cfg.maxLines = <<"-", "1">>
    /\ Len(cache["ml"].pending) = 3
    /\ \A i \in DOMAIN cache["ml"].pending : ~IsMarker(cache["ml"].pending[i])

---------------------------------------------------------------------------
(* C25 *)

\* C25: after every event every buffer in the cache has at least one pending
\* line.
C25_NoEmptyBufferInCache ==
    \A k \in DOMAIN cache : cache[k].pending # <<>>

\* a sweep removed one buffer and left another, and a line created a new one
C25_Witness ==
    /\ ev.kind = "line"
    /\ Cardinality(DOMAIN ev.before) = 1
    /\ Cardinality(DOMAIN cache) = 2
    /\ \E i \in DOMAIN written : written[i].lines = <<1>>
    /\ \A k \in DOMAIN cache : Len(cache[k].pending) = 1

---------------------------------------------------------------------------
(* C27: the first line of a buffer, under SpecBuffer *)

\* C27: Buffer on a buffer without pending lines appends the line and returns
\* no record, whatever the matcher says; the first record of the buffer
\* therefore starts with the first line, also when that line looks like a
\* continuation.
C27_FirstLineIsAppended ==
    /\ (ev.kind = "line" /\ ev.before["ml"].pending = <<>>)
          => (ev.msgs = <<>> /\ cache["ml"].pending = <<ev.line[1]>>)
    /\ written # <<>> => written[1].Time = 1

\* previous grouping: the stream starts with two indented lines, which make
\* up the first record
C27_Witness ==
    /\ cfg.groupWith = "previous"
    /\ ~cfg.negate
    /\ Len(written) = 1
    /\ written[1].lines = <<1, 2>>
    /\ written[1].Data = <<" ", "b", "\n", " ", "b">>

---------------------------------------------------------------------------
(* C28, C29: what an event changes in the cache *)

\* C28: a line event yields at most one record and changes at most the
\* buffer of the line's key: the other keys stay in the cache, no other key is
\* added, and their buffers are unchanged.
C28_LineTouchesOneBuffer ==
    ev.kind = "line" =>
        /\ Len(ev.msgs) <= 1
        /\ DOMAIN cache = DOMAIN ev.before \cup {KeyOf(ev.line[1])}
        /\ \A k \in DOMAIN ev.before \ {KeyOf(ev.line[1])} : cache[k] = ev.before[k]

\* a line that ends a group while the other stream has a buffer
C28_Witness ==
    /\ ev.kind = "line"
    /\ Len(ev.msgs) = 1
    /\ Cardinality(DOMAIN ev.before) = 2
    /\ ev.t > 0
    /\ \E k \in DOMAIN cache : cache[k].LastTouched < ev.t

\* the keys whose buffer is older than the TTL at the last tick
OlderThanTTL ==
    {k \in DOMAIN ev.before :
        ev.before[k].pending # <<>> /\ ev.t - ev.before[k].LastTouched > CacheTTL}

\* C29: a sweep removes exactly the buffers that are expired, returns exactly
\* one record for each of them, and leaves every other buffer in the cache
\* as it was.
C29_SweepRemovesExactlyExpired ==
    ev.kind = "tick" =>
        /\ DOMAIN cache = DOMAIN ev.before \ OlderThanTTL
        /\ \A k \in DOMAIN cache : cache[k] = ev.before[k]
        /\ Len(ev.msgs) = Cardinality(OlderThanTTL)
        /\ \A k \in OlderThanTTL :
              \E i \in DOMAIN ev.msgs : IsRecordOf(ev.msgs[i], ev.before[k].pending)

\* a sweep that flushed one stream and kept the other
C29_Witness ==
    /\ ev.kind = "tick"
    /\ Cardinality(OlderThanTTL) = 1
    /\ Cardinality(DOMAIN cache) = 1
    /\ Len(ev.msgs) = 1
    /\ KeyOf(ev.msgs[1]) \notin DOMAIN cache

---------------------------------------------------------------------------
(* C30: the end of a truncated group, under SpecBuffer *)

\* the n-th line handed to the buffer
InputLine(n) == hist[<<"c1", "out">>][n].msg[1]

\* C30: a group ends at the same line with and without truncation: a Buffer
\* call ends the group (returns its record) exactly when the matcher is false
\* for the texts of the preceding input line and of the line, whether or not
\* the preceding line was stored.
C30_GroupEndsAsWithoutCap ==
    (ev.kind = "line" /\ ev.line[1].Time > 1)
        => (ev.msgs # <<>>
              <=> ~isMultiline(cfg, InputLine(ev.line[1].Time - 1).Data, ev.line[1].Data))

---------------------------------------------------------------------------
(* C26: Buffer calls and a final Flush, under SpecBuffer *)

\* the lines handed to the buffer so far
Input == [i \in 1..sent |-> InputLine(i)]

\* the groups of the first n input lines: a group starts at line 1 and at
\* every line for which the matcher is false against its predecessor
RECURSIVE GroupsUpTo(_)
GroupsUpTo(n) ==
    IF n = 0 THEN <<>>
    ELSE IF n = 1 THEN << <<Input[1]>> >>
    ELSE LET g == GroupsUpTo(n - 1)
         IN  IF isMultiline(cfg, Input[n - 1].Data, Input[n].Data)
             THEN [g EXCEPT ![Len(g)] = Append(@, Input[n])]
             ELSE Append(g, <<Input[n]>>)

Groups == GroupsUpTo(sent)

\* strings.Split: the pieces of s between the occurrences of sep; the
\* characters of s when sep is empty
RECURSIVE SplitAcc(_, _, _)
SplitAcc(s, sep, cur) ==
    IF s = <<>> THEN <<cur>>
    ELSE IF HasPrefix(s, sep)
    THEN <<cur>> \o SplitAcc(SubSeq(s, Len(sep) + 1, Len(s)), sep, <<>>)
    ELSE SplitAcc(Tail(s), sep, Append(cur, Head(s)))

Split(s, sep) ==
    IF sep = <<>> THEN [i \in 1..Len(s) |-> <<s[i]>>] ELSE SplitAcc(s, sep, <<>>)

\* the last call was a Flush that followed Buffer calls only, on input in
\* which no group exceeds the cap
FinalFlushOfGroups ==
    /\ ev.kind = "flush"
    /\ sent > 0
    /\ ev.nw = Len(Groups) - 1
    /\ \A i \in DOMAIN Groups : Len(Groups[i]) <= maxLines

\* the records are the groups, in order, each joined by the separator
RecordsAreGroups ==
    /\ Len(written) = Len(Groups)
    /\ \A i \in DOMAIN written :
          /\ written[i].Data = Joined(DataOf(Groups[i]), ConfiguredSeparator)
          /\ written[i].lines = TimesOf(Groups[i])

\* the texts of the records split by the separator give the input back
SplitGivesInput ==
    Flatten([i \in DOMAIN written |-> Split(written[i].Data, ConfiguredSeparator)])
        = DataOf(Input)

\* C26 as stated: for every separator
C26_GroupsRoundTrip ==
    FinalFlushOfGroups => (RecordsAreGroups /\ SplitGivesInput)

\* the separator is not empty and occurs in no input line
SeparatorNotInLines ==
    /\ ConfiguredSeparator # <<>>
    /\ \A i \in DOMAIN Input : Len(Split(Input[i].Data, ConfiguredSeparator)) = 1

\* C26 amended: the records are the groups for every separator; splitting
\* gives the input back when the separator is not empty and occurs in no line.
C26_GroupsRoundTripSeparatorAbsent ==
    FinalFlushOfGroups => (RecordsAreGroups /\ (SeparatorNotInLines => SplitGivesInput))

\* three lines in two groups, the second of two lines, and the final Flush
C26_Witness ==
    /\ FinalFlushOfGroups
    /\ SeparatorNotInLines
    /\ sent = 3
    /\ Len(Groups) = 2
    /\ Len(written) = 2
    /\ Len(Groups[2]) = 2
    /\ cfg.separator = << <<"|">> >>

---------------------------------------------------------------------------
(* C21: one event at a time, under SpecSteps *)

\* an emission is outstanding: records of the last event are not written yet
EmissionOutstanding == pc = "sending" /\ Unsent # <<>>

\* C21: the worker takes a line, a tick or the close, and changes a buffer,
\* only at the select and with every record of the previous event written;
\* each write hands over the next unwritten record of the event in progress,
\* so no record is left for a later event.
C21_OneEventAtATime ==
    [][/\ (ev' # ev \/ cache' # cache)
           => (pc = "running" /\ Unsent = <<>> /\ Len(written) = ev.nw + Len(ev.msgs))
       /\ written' # written
           => (ev' = ev /\ EmissionOutstanding /\ written' = Append(written, Head(Unsent)))
      ]_vars

\* a tick that flushed two buffers has one record written and one to write,
\* while the next tick is waiting in the ticker's channel
C21_Witness ==
    /\ ev.kind = "tick"
    /\ Len(ev.msgs) = 2
    /\ EmissionOutstanding
    /\ Len(Unsent) = 1
    /\ tickC # <<>>
    /\ ~closed /\ sent < MaxInput

---------------------------------------------------------------------------
(* C23: the document of a record whose text is a JSON object, under SpecSerialize *)

\* the record sent and the document written for it
SentRecord == ev.msgs[1]

SerializedDocument == written[1]

\* a record whose text is a JSON object has been serialized
ObjectSerialized ==
    /\ ev.kind = "record"
    /\ written # <<>>
    /\ SentRecord.Data.json = "object"

\* C23: the document of a record whose text is a JSON object has every
\* field of the object with the object's value, the field message included,
\* and the docker metadata under docker.
C23_JsonFieldsPreserved ==
    ObjectSerialized =>
        /\ \A k \in DOMAIN SentRecord.Data.fields :
              /\ k \in DOMAIN SerializedDocument
              /\ SerializedDocument[k] = SentRecord.Data.fields[k]
        /\ "docker" \in DOMAIN SerializedDocument
        /\ SerializedDocument["docker"] = DockerInfoOf(SentRecord)

---------------------------------------------------------------------------
(* C31: the order of the records at the writer *)

\* the records of one key are written in the order in which their first
\* lines arrived
PerKeyArrivalOrder ==
    \A i, j \in DOMAIN written :
        (i < j /\ StreamOf(written[i]) = StreamOf(written[j]))
            => written[i].lines[1] < written[j].lines[1]

\* the records written by a step are records of the event the step handled,
\* in the order of production, put after everything written before
WrittenAfterEarlierEvents ==
    written' # written =>
        /\ IsPrefix(written, written')
        /\ ev'.nw = Len(written)
        /\ IsPrefix(SubSeq(written', Len(written) + 1, Len(written')), ev'.msgs)

\* C31: for one key the records reach the writer in the order in which their
\* first lines arrived, and the records of an event are written after all
\* records of the events handled before it.
C31_RecordsInEventOrder ==
    []PerKeyArrivalOrder /\ [][WrittenAfterEarlierEvents]_vars

\* three records: two of one key, and between them a record of the other key
C31_Witness ==
    /\ Len(written) = 3
    /\ StreamOf(written[1]) = StreamOf(written[3])
    /\ StreamOf(written[1]) # StreamOf(written[2])
    /\ ev.nw = 1
    /\ pc = "running"

---------------------------------------------------------------------------
(* C32 and C33: the message objects and the two variants, under SpecObjects *)

\* the address of the object handed to Buffer as line n
BufferedAt(n) == hist[<<"c1", "out">>][n].at

\* C32: whatever Buffer, Expire and Flush did, every object handed to Buffer
\* has the text and the metadata it was handed over with.
C32_SubmittedLineUnchanged ==
    \A n \in 1..sent : heap[BufferedAt(n)] = InputLine(n)

\* Buffer, Expire and Flush have each returned a record, and a marker object
\* was made
C32_Witness ==
    /\ \A by \in {"Buffer", "Expire", "Flush"} :
          \E i \in DOMAIN written : written[i].by = by
    /\ \E a \in DOMAIN heap : heap[a].Data = TruncatedText
    /\ sent = MaxInput

\* the texts of the records Buffer returned, in order
RECURSIVE TextsReturnedBy(_, _)
TextsReturnedBy(by, w) ==
    IF w = <<>> THEN <<>>
    ELSE (IF Head(w).by = by THEN <<heap[Head(w).at].Data>> ELSE <<>>)
             \o TextsReturnedBy(by, Tail(w))

\* C33: the texts read from Last whenever Step left State Flushed are, in
\* order, the texts of the records Buffer returned, and both variants hold
\* the same pending texts.
C33_VariantsAgree ==
    /\ step.read = TextsReturnedBy("Buffer", written)
    /\ TextsAt(heap, step.ml.pending) = TextsAt(heap, cache["ml"].pending)

\* the first record is of two lines, read after the third line, which is pending
C33_Witness ==
    /\ sent = 3
    /\ Len(step.read) = 1
    /\ step.read[1] = InputLine(1).Data \o separator \o InputLine(2).Data
    /\ step.ml.State = "Flushed"
    /\ TextsAt(heap, step.ml.pending) = <<InputLine(3).Data>>

---------------------------------------------------------------------------
(* C34: the worker stops after the close, under SpecLive *)

\* Stream has returned after flushPendingMessages and the writes of its records
Drained == pc = "done" /\ ev.kind = "close" /\ Unsent = <<>>

\* C34: once logstream is closed the worker eventually handles the close,
\* writes the records of the flush and returns (or a failed write has ended
\* the process), although ticks keep becoming ready.
C34_StopsAfterClose == closed ~> (Drained \/ pc = "fatal")

\* logstream is closed and a tick is ready at the select, after a tick fired
\* past the end of the clock has already been served
C34_Witness ==
    /\ closed
    /\ pc = "running"
    /\ tickC # <<>>
    /\ ev.kind = "tick"
    /\ ev.t = MaxTime
    /\ now = MaxTime

---------------------------------------------------------------------------
(* C35: a line served after the tick that flushed its buffer *)

\* the last event was a line of stream s, and the event of s before it was
\* the tick that flushed the buffer of s
LineAfterFlushingTick(s) ==
    /\ ev.kind = "line"
    /\ StreamOf(ev.line[1]) = s
    /\ Len(hist[s]) >= 2
    /\ hist[s][Len(hist[s]) - 1].kind = "expire"

\* C35: a line served after the tick that flushed its buffer finds no buffer
\* under its key, gets a new one and is its only pending line; it returns no
\* record and is in no record written so far.
C35_LineAfterTickStartsRecord ==
    \A s \in Streams :
        LineAfterFlushingTick(s) =>
            /\ StreamKey(s) \notin DOMAIN ev.before
            /\ StreamKey(s) \in DOMAIN cache
            /\ cache[StreamKey(s)].pending = ev.line
            /\ ev.msgs = <<>>
            /\ Occurrences(ev.line[1].Time) = {}

\* under previous grouping a continuation line is served after the tick that
\* flushed the lines it would have continued
C35_Witness ==
    /\ LineAfterFlushingTick(<<"c1", "out">>)
    /\ cfg.groupWith = "previous" /\ ~cfg.negate
    /\ isMultiline(cfg, <<>>, ev.line[1].Data)
    /\ pc = "running"
    /\ \E i \in DOMAIN written : StreamOf(written[i]) = <<"c1", "out">>

---------------------------------------------------------------------------
(* C36: which lines share a buffer, under SpecRouting *)

\* the pending lines of the cache entry k (the marker has the identity of the
\* line it was copied from)
PendingOf(k) == {cache[k].pending[i] : i \in DOMAIN cache[k].pending}

\* C36 as stated: the lines pending in one cache entry have the same
\* container ID and the same source.
C36_OneStreamPerBuffer ==
    \A k \in DOMAIN cache : \A m1, m2 \in PendingOf(k) : StreamOf(m1) = StreamOf(m2)

\* C36 amended: lines whose container IDs have the same length share a cache
\* entry only if they have the same container ID and the same source.
C36_OneStreamPerBufferEqualLengthIDs ==
    \A k \in DOMAIN cache : \A m1, m2 \in PendingOf(k) :
        Len(m1.ID) = Len(m2.ID) => StreamOf(m1) = StreamOf(m2)

\* two lines of one pair share a buffer while a line of another container,
\* with the same source and an ID of the same length, has a buffer of its own
C36_Witness ==
    /\ \E k \in DOMAIN cache :
          /\ Len(cache[k].pending) = 2
          /\ \A m \in PendingOf(k) : StreamOf(m) = <<"c1", "out">>
    /\ \E k \in DOMAIN cache : \E m \in PendingOf(k) : StreamOf(m) = <<"c2", "out">>

---------------------------------------------------------------------------
(* C37: the shape of the pending lines, under SpecBuffer *)

\* the positions of the markers among the pending lines of ml
MarkerPositions(ml) == {i \in DOMAIN ml.pending : IsMarker(ml.pending[i])}

\* C37: a buffer never holds more than maxLines + 1 pending lines, at most one
\* of them is a "[Truncated]" marker, and the marker is the last pending line,
\* at position maxLines + 1.
C37_MarkerLastAtCapPlusOne ==
    \A k \in DOMAIN cache :
        /\ PendingSize(cache[k]) <= maxLines + 1
        /\ Cardinality(MarkerPositions(cache[k])) <= 1
        /\ \A i \in MarkerPositions(cache[k]) :
              i = PendingSize(cache[k]) /\ i = maxLines + 1

\* the marker is pending after the cap of two lines, and after the cap of
\* one line with a further line dropped behind it
C37_Witness ==
    /\ ev.kind = "line"
    /\ MarkerPositions(cache["ml"]) # {}
    /\ \/ maxLines = 2 /\ PendingSize(cache["ml"]) = 3
       \/ /\ maxLines = 1
          /\ sent = 3
          /\ ev.before["ml"].pending = cache["ml"].pending

---------------------------------------------------------------------------
(* C38: LastTouched and the lines dropped after truncation *)

\* the last event was a line that was dropped: it left the pending lines of
\* its buffer as they were and returned nothing
LineDropped ==
    /\ ev.kind = "line"
    /\ KeyOf(ev.line[1]) \in DOMAIN ev.before
    /\ ev.before[KeyOf(ev.line[1])].pending = cache[KeyOf(ev.line[1])].pending
    /\ ev.msgs = <<>>

\* C38: after every line the LastTouched of its buffer is the time of the
\* Buffer call, for a dropped line too; and a sweep flushes a buffer only if
\* the tick is more than cache_ttl later than that time, so a buffer at the
\* cap whose lines keep coming within cache_ttl is not flushed.
C38_EveryLineRefreshesLastTouched ==
    /\ (ev.kind = "line" /\ pc # "panic")
          => cache[KeyOf(ev.line[1])].LastTouched = ev.t
    /\ ev.kind = "tick"
          => \A k \in DOMAIN ev.before :
                 (ev.t - ev.before[k].LastTouched <= CacheTTL) => k \in DOMAIN cache

\* a line dropped behind the marker has refreshed LastTouched, and the buffer
\* would have been flushed by a tick at this time had it not
C38_Witness ==
    /\ LineDropped
    /\ MarkerPositions(cache[KeyOf(ev.line[1])]) # {}
    /\ cache[KeyOf(ev.line[1])].LastTouched = now
    /\ now - ev.before[KeyOf(ev.line[1])].LastTouched > CacheTTL
    /\ pc = "running"

---------------------------------------------------------------------------
(* C39: the ticks a buffer outlives *)

\* the buffer of stream s is in the cache
Held(s) == StreamKey(s) \in DOMAIN cache

\* C39 as stated: a buffer is flushed no later than the second tick handled
\* after its last line.
C39_FlushedBySecondTick ==
    \A s \in Streams : Held(s) => ticks[s].all < 2

\* C39 amended: a buffer is flushed no later than the second tick handled
\* after its last line whose time stamp is later than the time of that line;
\* ticks that fired before the line, or at its time, do not count.
C39_FlushedBySecondLaterTick ==
    \A s \in Streams : Held(s) => ticks[s].later < 2

\* a tick has left the buffer in the cache and the next one has flushed it
C39_Witness ==
    /\ ev.kind = "tick"
    /\ \E s \in Streams :
          /\ StreamKey(s) \in DOMAIN ev.before
          /\ ~Held(s)
          /\ ticks[s].all = 2
          /\ ticks[s].later = 2
    /\ pc = "running"

---------------------------------------------------------------------------
(* C40: the sweep interval, under SpecConstructed *)

\* C40: the adapter's cache_ttl is strictly positive whatever the option
\* says, a zero or negative duration being replaced by the default, and
\* starting the ticker in Stream does not fail.
C40_SweepIntervalPositive ==
    /\ cacheTTLOf(cfg.cacheTTL) > 0
    /\ (~ParseDuration(cfg.cacheTTL).err /\ ParseDuration(cfg.cacheTTL).val <= 0)
          => cacheTTLOf(cfg.cacheTTL) = defaultCacheTTL
    /\ pc # "panic"

=============================================================================
